---- MODULE Spec2Model ----
(***************************************************************************)
(* Model of the feature-engineering pipeline                               *)
(* (playground_series_s6e1_kaggle/features.py) and of the EDA report       *)
(* script (reports/0_01_rab_raw_features_eda.py).                          *)
(*                                                                         *)
(* A table (pandas DataFrame) is a record [cols, rows]: cols is the        *)
(* ordered sequence of column names, rows the ordered sequence of rows,    *)
(* each row a function from column name to cell.  A cell of a text column  *)
(* is a string (the string "NaN" is the missing cell, as read_csv parses   *)
(* it); a cell of a numeric column is an exact fraction [num, den], with   *)
(* den = 0 for the non-finite floats: 0/0 is NaN, 1/0 is +inf.             *)
(***************************************************************************)
EXTENDS Integers, Sequences, FiniteSets, TLC

VARIABLES
    \* ---- create_features called on its own (whole table and row chunks)
    fpc,            \* "call", "called", "chunked"
    df,             \* the input table
    df_featured,    \* create_features(df): a table or a raised KeyError
    chunk_at,       \* number of rows in the first chunk
    stacked,        \* the per-chunk results stacked: a table or a KeyError
    \* ---- features.py main
    pc,             \* "load", "transform", "mkdir", "write_train", "write_test", "done", "failed", "idle"
    train_input, test_input,            \* contents of the two input files
    train_output_path, test_output_path, \* directory part of the two output paths
    dirs,           \* directories that exist on disk
    train_df, test_df, target, combined_df, featured_df,
    train_featured, test_featured,
    train_csv, test_csv,                \* contents of the two output files
    raised,         \* the exception that ended main, or "none"
    \* ---- EDA script
    eda_pc,         \* the statement of the script that runs next
    fpdf_installed, \* whether the fpdf package can be imported
    FPDF,           \* the module-level name FPDF: "unbound", "class" or "None"
    stdout,         \* the messages printed so far
    columns_in,     \* the columns of train.csv, each with its dtype
    eda_dirs,       \* directories that exist under reports/
    figures,        \* the image files saved
    image_sections, \* main's image_sections, in insertion order
    pdf_report,     \* whether outputs/eda_report.pdf was written
    eda_raised      \* the exception that ended the script, or "none"

fvars == <<fpc, df, df_featured, chunk_at, stacked>>
mvars == <<pc, train_input, test_input, train_output_path, test_output_path, dirs,
           train_df, test_df, target, combined_df, featured_df,
           train_featured, test_featured, train_csv, test_csv, raised>>
evars == <<eda_pc, fpdf_installed, FPDF, stdout, columns_in, eda_dirs, figures,
           image_sections, pdf_report, eda_raised>>
vars == <<fvars, mvars, evars>>

----------------------------------------------------------------------------
(* Bounds *)

MaxRows == 3
MaxTrain == 2
MaxTest == 1
MaxNumeric == 3
MaxCategorical == 3

----------------------------------------------------------------------------
(* Numeric cells: float64 values as exact fractions *)

Num(n) == [num |-> n, den |-> 1]
NaN == [num |-> 0, den |-> 0]
Inf == [num |-> 1, den |-> 0]
IsNaN(x) == x.den = 0 /\ x.num = 0
IsFinite(x) == x.den # 0

\* 1e-6 as a fraction: 1 / EpsDen
EpsDen == 1000000

\* x + 1e-6
AddEps(x) ==
    IF ~IsFinite(x) THEN x
    ELSE [num |-> x.num * EpsDen + x.den, den |-> x.den * EpsDen]

\* a / b in float64: x/0 is +-inf, 0/0 and anything with NaN is NaN
Div(a, b) ==
    IF IsNaN(a) \/ IsNaN(b) THEN NaN
    ELSE IF ~IsFinite(a) THEN (IF IsFinite(b) THEN a ELSE NaN)
    ELSE IF ~IsFinite(b) THEN Num(0)
    ELSE IF b.num = 0 THEN (IF a.num = 0 THEN NaN ELSE Inf)
    ELSE [num |-> a.num * b.den, den |-> a.den * b.num]

\* a * b
Mul(a, b) ==
    IF IsNaN(a) \/ IsNaN(b) THEN NaN
    ELSE IF ~IsFinite(a) \/ ~IsFinite(b)
         THEN (IF a.num = 0 \/ b.num = 0 THEN NaN ELSE Inf)
    ELSE [num |-> a.num * b.num, den |-> a.den * b.den]

----------------------------------------------------------------------------
(* Tables *)

Range(s) == {s[i] : i \in 1..Len(s)}

HasColumn(t, c) == c \in Range(t.cols)

\* raised by t[c] when t has no column c
KeyError(c) == [error |-> "KeyError", key |-> c]
IsError(x) == "error" \in DOMAIN x

EmptyTable == [cols |-> <<>>, rows |-> <<>>]

\* t[c] = vals, by position: overwrites column c in place, or appends it
SetColumnValues(t, c, vals) ==
    [cols |-> IF HasColumn(t, c) THEN t.cols ELSE Append(t.cols, c),
     rows |-> [i \in 1..Len(t.rows) |->
                 [k \in Range(t.cols) \cup {c} |->
                    IF k = c THEN vals[i] ELSE t.rows[i][k]]]]

\* t[c].values
Values(t, c) == [i \in 1..Len(t.rows) |-> t.rows[i][c]]

\* A csv file: the header and, per row, the fields in header order
ToCsv(t) ==
    [header |-> t.cols,
     lines |-> [i \in 1..Len(t.rows) |->
                  [j \in 1..Len(t.cols) |-> t.rows[i][t.cols[j]]]]]

ReadCsv(f) ==
    [cols |-> f.header,
     rows |-> [i \in 1..Len(f.lines) |->
                 [k \in Range(f.header) |->
                    f.lines[i][CHOOSE j \in 1..Len(f.header) : f.header[j] = k]]]]

EmptyCsv == [header |-> <<>>, lines |-> <<>>]

\* t.drop(columns=cs)
DropColumns(t, cs) ==
    LET kept == SelectSeq(t.cols, LAMBDA c : c \notin cs)
    IN  [cols |-> kept,
         rows |-> [i \in 1..Len(t.rows) |-> [k \in Range(kept) |-> t.rows[i][k]]]]

\* t.iloc[from-1 : to]
ILoc(t, from, to) ==
    [cols |-> t.cols, rows |-> SubSeq(t.rows, from, to)]

\* pd.concat([a, b], ignore_index=True): rows of a then rows of b, over the
\* union of the columns (a's first), a cell of an absent column being NaN
Concat(a, b) ==
    LET cols == a.cols \o SelectSeq(b.cols, LAMBDA c : ~HasColumn(a, c))
        Widen(t, r) == [k \in Range(cols) |-> IF HasColumn(t, k) THEN r[k] ELSE NaN]
    IN  [cols |-> cols,
         rows |-> [i \in 1..Len(a.rows) |-> Widen(a, a.rows[i])]
                  \o [i \in 1..Len(b.rows) |-> Widen(b, b.rows[i])]]

----------------------------------------------------------------------------
(* create_features *)

sleep_quality_mapping == [poor |-> 0, average |-> 1, good |-> 2]
facility_rating_mapping == [low |-> 0, medium |-> 1, high |-> 2]
exam_difficulty_mapping == [easy |-> 0, moderate |-> 1, hard |-> 2]

nominal_cols == <<"gender", "course", "internet_access", "study_method">>

\* Series.map(dict) on one cell with every value outside the dict coded 0
MapFillZero(mapping, v) ==
    IF v \in DOMAIN mapping THEN Num(mapping[v]) ELSE Num(0)

\* Series.map(dict) on one cell: the code of a key, NaN for anything else
Map(mapping, v) ==
    IF v \in DOMAIN mapping THEN Num(mapping[v]) ELSE NaN

\* the column coded by the position of each value among the values observed in
\* the table (a categorical's codes) instead of by the fixed dict
MapColumnCodes(t, c, mapping) ==
    IF ~HasColumn(t, c) THEN KeyError(c)
    ELSE LET seen == {t.rows[i][c] : i \in 1..Len(t.rows)} \cap DOMAIN mapping
             Code(v) == IF v \in seen
                        THEN Num(Cardinality({w \in seen : mapping[w] < mapping[v]}))
                        ELSE NaN
         IN  SetColumnValues(t, c, [i \in 1..Len(t.rows) |-> Code(t.rows[i][c])])

\* t[c] = t[c].map(mapping)
MapColumn(t, c, mapping) ==
    IF ~HasColumn(t, c) THEN KeyError(c)
    ELSE SetColumnValues(t, c, [i \in 1..Len(t.rows) |-> Map(mapping, t.rows[i][c])])

\* Every category token of the nominal columns in lexical (sorted) order:
\* string comparison restricted to the tokens the inputs are drawn from
LexOrder == <<"bca", "btech", "coaching", "female", "male", "no", "other",
              "self-study", "yes">>

\* the observed categories of column c, sorted; missing cells are no category
Levels(t, c) ==
    SelectSeq(LexOrder, LAMBDA v : \E i \in 1..Len(t.rows) : t.rows[i][c] = v)

\* the indicator columns of the given columns, in order: for each column one
\* per level, the first level left out when drop_first
RECURSIVE DummyColumns(_, _, _)
DummyColumns(t, columns, drop_first) ==
    IF columns = <<>> THEN <<>>
    ELSE LET c == Head(columns)
             lv == Levels(t, c)
             used == IF drop_first /\ lv # <<>> THEN Tail(lv) ELSE lv
         IN  [i \in 1..Len(used) |->
                [name |-> c \o "_" \o used[i], col |-> c, level |-> used[i]]]
             \o DummyColumns(t, Tail(columns), drop_first)

\* the table with `columns` replaced by the indicator columns `dummies`
Encode(t, columns, dummies) ==
    LET missing == SelectSeq(columns, LAMBDA c : ~HasColumn(t, c))
        kept == SelectSeq(t.cols, LAMBDA c : c \notin Range(columns))
        names == [i \in 1..Len(dummies) |-> dummies[i].name]
        Cell(r, k) ==
            IF k \in Range(kept) THEN r[k]
            ELSE LET d == CHOOSE d \in Range(dummies) : d.name = k
                 IN  IF r[d.col] = d.level THEN Num(1) ELSE Num(0)
    IN  IF missing # <<>> THEN KeyError(Head(missing))
        ELSE [cols |-> kept \o names,
              rows |-> [i \in 1..Len(t.rows) |->
                          [k \in Range(kept) \cup Range(names) |-> Cell(t.rows[i], k)]]]

\* get_dummies that keeps the indicator of every level
get_dummies_keep_first(t, columns, drop_first) ==
    Encode(t, columns, DummyColumns(t, columns, FALSE))

\* pd.get_dummies(t, columns=columns, prefix=columns, drop_first=drop_first)
get_dummies(t, columns, drop_first) ==
    Encode(t, columns, DummyColumns(t, columns, drop_first))

\* the ratio without the epsilon
study_efficiency_no_eps(r) == Div(r["class_attendance"], r["study_hours"])

\* class_attendance / (study_hours + 1e-6)
study_efficiency(r) == Div(r["class_attendance"], AddEps(r["study_hours"]))

study_sleep_interaction(r) == Mul(r["study_hours"], r["sleep_hours"])
study_hours_sq(r) == Mul(r["study_hours"], r["study_hours"])
class_attendance_sq(r) == Mul(r["class_attendance"], r["class_attendance"])

\* the assignment skipped when a column it reads is absent
DeriveLenient(t, c, reads, vals) ==
    LET missing == SelectSeq(reads, LAMBDA k : ~HasColumn(t, k))
    IN  IF missing # <<>> THEN t ELSE SetColumnValues(t, c, vals)

\* t[c] = vals, an expression that reads the columns `reads` in that order
Derive(t, c, reads, vals) ==
    LET missing == SelectSeq(reads, LAMBDA k : ~HasColumn(t, k))
    IN  IF missing # <<>> THEN KeyError(Head(missing)) ELSE SetColumnValues(t, c, vals)

\* the four derived columns, in the order they are assigned
DerivedFeatures(t) ==
    LET d1 == Derive(t, "study_efficiency", <<"class_attendance", "study_hours">>,
                     [i \in 1..Len(t.rows) |-> study_efficiency(t.rows[i])])
        d2 == IF IsError(d1) THEN d1
              ELSE Derive(d1, "study_sleep_interaction", <<"study_hours", "sleep_hours">>,
                          [i \in 1..Len(t.rows) |-> study_sleep_interaction(d1.rows[i])])
        d3 == IF IsError(d2) THEN d2
              ELSE Derive(d2, "study_hours_sq", <<"study_hours">>,
                          [i \in 1..Len(t.rows) |-> study_hours_sq(d2.rows[i])])
    IN  IF IsError(d3) THEN d3
        ELSE Derive(d3, "class_attendance_sq", <<"class_attendance">>,
                    [i \in 1..Len(t.rows) |-> class_attendance_sq(d3.rows[i])])

\* the three ordinal columns, in the order they are assigned
OrdinalFeatures(t) ==
    LET o1 == MapColumn(t, "sleep_quality", sleep_quality_mapping)
        o2 == IF IsError(o1) THEN o1
              ELSE MapColumn(o1, "facility_rating", facility_rating_mapping)
    IN  IF IsError(o2) THEN o2
        ELSE MapColumn(o2, "exam_difficulty", exam_difficulty_mapping)

\* create_features with the rows holding an uncoded ordinal cell dropped
\* after the ordinal encoding (a dropna())
create_features_dropna(t) ==
    LET ordinal == OrdinalFeatures(t)
        Coded(r) == /\ ~IsNaN(r["sleep_quality"]) /\ ~IsNaN(r["facility_rating"])
                    /\ ~IsNaN(r["exam_difficulty"])
        dropped == IF IsError(ordinal) THEN ordinal
                   ELSE [cols |-> ordinal.cols, rows |-> SelectSeq(ordinal.rows, Coded)]
        onehot == IF IsError(dropped) THEN dropped
                  ELSE get_dummies(dropped, nominal_cols, TRUE)
    IN  IF IsError(onehot) THEN onehot ELSE DerivedFeatures(onehot)

\* lines 11-43
create_features(t) ==
    LET ordinal == OrdinalFeatures(t)
        onehot == IF IsError(ordinal) THEN ordinal
                  ELSE get_dummies(ordinal, nominal_cols, TRUE)
    IN  IF IsError(onehot) THEN onehot ELSE DerivedFeatures(onehot)

----------------------------------------------------------------------------
(* Inputs *)

\* the header of test.csv; train.csv has exam_score as one more, last, column
RawColumns == <<"id", "gender", "course", "study_hours", "class_attendance",
                "internet_access", "sleep_hours", "sleep_quality", "study_method",
                "facility_rating", "exam_difficulty">>

\* the columns create_features reads
RequiredColumns == {"sleep_quality", "facility_rating", "exam_difficulty",
                    "gender", "course", "internet_access", "study_method",
                    "study_hours", "class_attendance", "sleep_hours"}

Row(sq, fr, ed, g, c, ia, sm, h, a, s, y) ==
    [sleep_quality |-> sq, facility_rating |-> fr, exam_difficulty |-> ed,
     gender |-> g, course |-> c, internet_access |-> ia, study_method |-> sm,
     study_hours |-> Num(h), class_attendance |-> Num(a), sleep_hours |-> Num(s),
     exam_score |-> Num(y)]

\* The rows a table handed to create_features is filled from.  Each ordinal
\* column takes every key of its mapping, a token outside it and the missing
\* cell; each nominal column takes two or three categories; study_hours is
\* zero or positive.  The first and the fourth row agree on the nominal columns.
SampleRows ==
    { Row("poor", "low", "easy", "female", "bca", "no", "coaching", 0, 10, 8, 70),
      Row("average", "medium", "moderate", "male", "btech", "yes", "self-study", 2, 90, 6, 85),
      Row("good", "high", "hard", "other", "bca", "yes", "coaching", 4, 0, 7, 90),
      Row("excellent", "NaN", "hard", "female", "bca", "no", "coaching", 0, 100, 5, 55),
      Row("NaN", "unknown", "NaN", "male", "btech", "no", "self-study", 1, 50, 8, 85),
      Row("good", "low", "moderate", "other", "btech", "yes", "self-study", 3, 75, 9, 60) }

\* The rows train.csv and test.csv are filled from
PipelineRows ==
    { Row("poor", "low", "easy", "female", "bca", "no", "coaching", 0, 10, 8, 70),
      Row("average", "medium", "moderate", "male", "btech", "yes", "self-study", 2, 90, 6, 85),
      Row("excellent", "NaN", "hard", "other", "bca", "yes", "coaching", 4, 0, 7, 90) }

\* a file of the rows `picks`, with ids first, first+1, ...; labelled or not
FileOf(picks, first, labelled) ==
    LET cols == IF labelled THEN Append(RawColumns, "exam_score") ELSE RawColumns
    IN  [cols |-> cols,
         rows |-> [i \in 1..Len(picks) |->
                     [k \in Range(cols) |->
                        IF k = "id" THEN Num(first + i - 1) ELSE picks[i][k]]]]

\* the sequences of lo to hi rows of S
Tables(S, lo, hi) == UNION {[1..n -> S] : n \in lo..hi}

----------------------------------------------------------------------------
(* Idle settings of the parts a specification does not run *)

FeaturesIdle ==
    /\ fpc = "idle" /\ df = EmptyTable /\ df_featured = EmptyTable
    /\ chunk_at = 0 /\ stacked = EmptyTable

MainIdle ==
    /\ pc = "idle" /\ train_input = EmptyCsv /\ test_input = EmptyCsv
    /\ train_output_path = "" /\ test_output_path = "" /\ dirs = {}
    /\ train_df = EmptyTable /\ test_df = EmptyTable /\ target = <<>>
    /\ combined_df = EmptyTable /\ featured_df = EmptyTable
    /\ train_featured = EmptyTable /\ test_featured = EmptyTable
    /\ train_csv = EmptyCsv /\ test_csv = EmptyCsv /\ raised = "none"

EdaIdle ==
    /\ eda_pc = "idle" /\ fpdf_installed = FALSE /\ FPDF = "unbound" /\ stdout = <<>>
    /\ columns_in = <<>> /\ eda_dirs = {} /\ figures = {} /\ image_sections = <<>>
    /\ pdf_report = FALSE /\ eda_raised = "none"

----------------------------------------------------------------------------
(* create_features applied to a table, and to its row chunks *)

\* the results of two chunks stacked; an error raised on a chunk ends the run
Stack(a, b) ==
    IF IsError(a) THEN a ELSE IF IsError(b) THEN b ELSE Concat(a, b)

InitFeatures ==
    /\ fpc = "call"
    /\ \E picks \in Tables(SampleRows, 1, MaxRows), dropped \in {"none"} \cup RequiredColumns :
          df = DropColumns(FileOf(picks, 1, FALSE), {dropped})
    /\ df_featured = EmptyTable /\ chunk_at = 0 /\ stacked = EmptyTable
    /\ MainIdle /\ EdaIdle

CallCreateFeatures ==
    /\ fpc = "call"
    /\ df_featured' = create_features(df)
    /\ fpc' = "called"
    /\ UNCHANGED <<df, chunk_at, stacked, mvars, evars>>

CallOnChunks ==
    /\ fpc = "called"
    /\ \E n \in 0..Len(df.rows) :
          /\ chunk_at' = n
          /\ stacked' = Stack(create_features(ILoc(df, 1, n)),
                              create_features(ILoc(df, n + 1, Len(df.rows))))
    /\ fpc' = "chunked"
    /\ UNCHANGED <<df, df_featured, mvars, evars>>

NextFeatures == CallCreateFeatures \/ CallOnChunks

SpecFeatures == InitFeatures /\ [][NextFeatures]_vars

----------------------------------------------------------------------------
(* features.py main *)

PROCESSED_DATA_DIR == "data/processed"

\* the directories an output path may lie in: the default and an override
OutputDirs == {PROCESSED_DATA_DIR, "exports"}

\* lines 62-77 with the two parts encoded one by one instead of combined
TransformSeparately(train, test) ==
    LET processed == DropColumns(train, {"exam_score"})
        combined == Concat(processed, test)
        a == create_features(processed)
        b == create_features(test)
    IN  IF IsError(a) THEN a ELSE IF IsError(b) THEN b
        ELSE [target |-> Values(train, "exam_score"), combined_df |-> combined,
              featured_df |-> Concat(a, b),
              train_featured |-> SetColumnValues(a, "exam_score", Values(train, "exam_score")),
              test_featured |-> b]

\* lines 62-77 with the two parts combined in the other order
TransformTestFirst(train, test) ==
    LET tgt == Values(train, "exam_score")
        combined == Concat(test, DropColumns(train, {"exam_score"}))
        featured == create_features(combined)
        n == Len(train.rows)
    IN  IF IsError(featured) THEN featured
        ELSE [target |-> tgt, combined_df |-> combined, featured_df |-> featured,
              train_featured |-> SetColumnValues(ILoc(featured, 1, n), "exam_score", tgt),
              test_featured |-> ILoc(featured, n + 1, Len(featured.rows))]

\* lines 62-77: take the label, combine, create the features, split, put the
\* label back on the train part
Transform(train, test) ==
    LET tgt == Values(train, "exam_score")
        train_df_processed == DropColumns(train, {"exam_score"})
        combined == Concat(train_df_processed, test)
        featured == create_features(combined)
        n == Len(train.rows)
    IN  IF IsError(featured) THEN featured
        ELSE [target |-> tgt, combined_df |-> combined, featured_df |-> featured,
              train_featured |-> SetColumnValues(ILoc(featured, 1, n), "exam_score", tgt),
              test_featured |-> ILoc(featured, n + 1, Len(featured.rows))]

Init ==
    /\ pc = "load"
    /\ train_output_path \in OutputDirs
    /\ test_output_path \in OutputDirs
    /\ dirs \in SUBSET OutputDirs
    /\ \E tr \in Tables(PipelineRows, 0, MaxTrain), te \in Tables(PipelineRows, 0, MaxTest) :
          /\ train_input = ToCsv(FileOf(tr, 1, TRUE))
          /\ test_input = ToCsv(FileOf(te, Len(tr) + 1, FALSE))
    /\ train_df = EmptyTable /\ test_df = EmptyTable /\ target = <<>>
    /\ combined_df = EmptyTable /\ featured_df = EmptyTable
    /\ train_featured = EmptyTable /\ test_featured = EmptyTable
    /\ train_csv = EmptyCsv /\ test_csv = EmptyCsv /\ raised = "none"
    /\ FeaturesIdle /\ EdaIdle

\* lines 57-58
Load ==
    /\ pc = "load"
    /\ train_df' = ReadCsv(train_input)
    /\ test_df' = ReadCsv(test_input)
    /\ pc' = "transform"
    /\ UNCHANGED <<train_input, test_input, train_output_path, test_output_path, dirs,
                   target, combined_df, featured_df, train_featured, test_featured,
                   train_csv, test_csv, raised, fvars, evars>>

\* lines 62-77
TransformData ==
    /\ pc = "transform"
    /\ LET r == Transform(train_df, test_df)
       IN  IF IsError(r)
           THEN /\ raised' = r.error /\ pc' = "failed"
                /\ UNCHANGED <<target, combined_df, featured_df, train_featured,
                               test_featured>>
           ELSE /\ target' = r.target
                /\ combined_df' = r.combined_df
                /\ featured_df' = r.featured_df
                /\ train_featured' = r.train_featured
                /\ test_featured' = r.test_featured
                /\ pc' = "mkdir"
                /\ UNCHANGED raised
    /\ UNCHANGED <<train_input, test_input, train_output_path, test_output_path, dirs,
                   train_df, test_df, train_csv, test_csv, fvars, evars>>

\* line 80
MakeProcessedDir ==
    /\ pc = "mkdir"
    /\ dirs' = dirs \cup {PROCESSED_DATA_DIR}
    /\ pc' = "write_train"
    /\ UNCHANGED <<train_input, test_input, train_output_path, test_output_path,
                   train_df, test_df, target, combined_df, featured_df, train_featured,
                   test_featured, train_csv, test_csv, raised, fvars, evars>>

\* line 83: to_csv raises OSError when the directory of the path does not exist
WriteTrain ==
    /\ pc = "write_train"
    /\ IF train_output_path \in dirs
       THEN /\ train_csv' = ToCsv(train_featured) /\ pc' = "write_test"
            /\ UNCHANGED raised
       ELSE /\ raised' = "OSError" /\ pc' = "failed"
            /\ UNCHANGED train_csv
    /\ UNCHANGED <<train_input, test_input, train_output_path, test_output_path, dirs,
                   train_df, test_df, target, combined_df, featured_df, train_featured,
                   test_featured, test_csv, fvars, evars>>

\* line 86
WriteTest ==
    /\ pc = "write_test"
    /\ IF test_output_path \in dirs
       THEN /\ test_csv' = ToCsv(test_featured) /\ pc' = "done"
            /\ UNCHANGED raised
       ELSE /\ raised' = "OSError" /\ pc' = "failed"
            /\ UNCHANGED test_csv
    /\ UNCHANGED <<train_input, test_input, train_output_path, test_output_path, dirs,
                   train_df, test_df, target, combined_df, featured_df, train_featured,
                   test_featured, train_csv, fvars, evars>>

Next == Load \/ TransformData \/ MakeProcessedDir \/ WriteTrain \/ WriteTest

Spec == Init /\ [][Next]_vars

----------------------------------------------------------------------------
(* reports/0_01_rab_raw_features_eda.py *)

TARGET == "exam_score"
ID_COL == "id"

NumericNames == <<"age", "study_hours", "class_attendance", "sleep_hours">>
CategoricalNames == <<"gender", "course", "internet_access", "sleep_quality",
                      "study_method", "facility_rating", "exam_difficulty">>

\* the columns of a train.csv with n numeric and m text feature columns
TrainColumns(n, m) ==
    <<[name |-> ID_COL, dtype |-> "number"]>>
    \o [i \in 1..n |-> [name |-> NumericNames[i], dtype |-> "number"]]
    \o [i \in 1..m |-> [name |-> CategoricalNames[i], dtype |-> "object"]]
    \o <<[name |-> TARGET, dtype |-> "number"]>>

\* lines 162-164
FeaturesOfDtype(columns, dtype) ==
    LET features == SelectSeq(columns, LAMBDA c : c.name \notin {TARGET, ID_COL})
        chosen == SelectSeq(features, LAMBDA c : c.dtype = dtype)
    IN  [i \in 1..Len(chosen) |-> chosen[i].name]

numerical_features == FeaturesOfDtype(columns_in, "number")
categorical_features == FeaturesOfDtype(columns_in, "object")

\* the image paths one of the per-feature plotting functions returns
Images(prefix, features) ==
    [i \in 1..Len(features) |-> prefix \o features[i] \o ".png"]

SkipMessage == "Skipping PDF generation as fpdf2 is not installed."
NotInstalledMessage ==
    "fpdf2 is not installed. Please run 'pip install fpdf2' to generate the PDF report."

SectionTitles == <<"Numerical Feature Distributions", "Categorical Feature Distributions",
                   "Numerical Features vs. Target", "Categorical Features vs. Target",
                   "Correlation Matrix">>

InitEda ==
    /\ eda_pc = "import"
    /\ fpdf_installed \in BOOLEAN
    /\ \E n \in 0..MaxNumeric, m \in 0..MaxCategorical : columns_in = TrainColumns(n, m)
    /\ FPDF = "unbound" /\ stdout = <<>> /\ eda_dirs = {} /\ figures = {}
    /\ image_sections = <<>> /\ pdf_report = FALSE /\ eda_raised = "none"
    /\ FeaturesIdle /\ MainIdle

\* lines 10-14
ImportFpdf ==
    /\ eda_pc = "import"
    /\ IF fpdf_installed
       THEN FPDF' = "class" /\ UNCHANGED stdout
       ELSE FPDF' = "None" /\ stdout' = Append(stdout, NotInstalledMessage)
    /\ eda_pc' = "mkdirs"
    /\ UNCHANGED <<fpdf_installed, columns_in, eda_dirs, figures, image_sections,
                   pdf_report, eda_raised, fvars, mvars>>

\* lines 23-24
MakeReportDirs ==
    /\ eda_pc = "mkdirs"
    /\ eda_dirs' = eda_dirs \cup {"figures", "outputs"}
    /\ eda_pc' = "class_pdf"
    /\ UNCHANGED <<fpdf_installed, FPDF, stdout, columns_in, figures, image_sections,
                   pdf_report, eda_raised, fvars, mvars>>

\* line 113: the class statement evaluates its base; a base of None raises
\* TypeError, which nothing catches, and the script ends there
ClassPDF ==
    /\ eda_pc = "class_pdf"
    /\ IF FPDF = "None"
       THEN eda_raised' = "TypeError" /\ eda_pc' = "crashed"
       ELSE eda_pc' = "read_csv" /\ UNCHANGED eda_raised
    /\ UNCHANGED <<fpdf_installed, FPDF, stdout, columns_in, eda_dirs, figures,
                   image_sections, pdf_report, fvars, mvars>>

\* lines 159-168
ReadTrain ==
    /\ eda_pc = "read_csv"
    /\ stdout' = stdout \o <<"Starting EDA process...", "Generating analysis plots...">>
    /\ image_sections' = <<>>
    /\ eda_pc' = "plot_1"
    /\ UNCHANGED <<fpdf_installed, FPDF, columns_in, eda_dirs, figures, pdf_report,
                   eda_raised, fvars, mvars>>

\* one of lines 169-173: save the images of a section and record them
Plot(k, images) ==
    /\ figures' = figures \cup Range(images)
    /\ image_sections' = Append(image_sections, [title |-> SectionTitles[k], images |-> images])
    /\ UNCHANGED <<fpdf_installed, FPDF, stdout, columns_in, eda_dirs, pdf_report,
                   eda_raised, fvars, mvars>>

PlotNumericalDistributions ==
    /\ eda_pc = "plot_1" /\ eda_pc' = "plot_2"
    /\ Plot(1, Images("numerical_dist_", numerical_features))

PlotCategoricalDistributions ==
    /\ eda_pc = "plot_2" /\ eda_pc' = "plot_3"
    /\ Plot(2, Images("categorical_dist_", categorical_features))

PlotNumericalVsTarget ==
    /\ eda_pc = "plot_3" /\ eda_pc' = "plot_4"
    /\ Plot(3, Images("numerical_vs_target_", numerical_features))

PlotCategoricalVsTarget ==
    /\ eda_pc = "plot_4" /\ eda_pc' = "plot_5"
    /\ Plot(4, Images("categorical_vs_target_", categorical_features))

PlotCorrelationMatrix ==
    /\ eda_pc = "plot_5" /\ eda_pc' = "report"
    /\ Plot(5, <<"correlation_matrix.png">>)

\* lines 175-180, with generate_pdf_report (lines 137-153)
Report ==
    /\ eda_pc = "report"
    /\ IF FPDF = "class"
       THEN /\ pdf_report' = ("outputs" \in eda_dirs)
            /\ stdout' = stdout \o <<"Generating PDF report...", "EDA report generated">>
       ELSE /\ stdout' = Append(stdout, SkipMessage)
            /\ UNCHANGED pdf_report
    /\ eda_pc' = "finish"
    /\ UNCHANGED <<fpdf_installed, FPDF, columns_in, eda_dirs, figures, image_sections,
                   eda_raised, fvars, mvars>>

\* line 182
Finish ==
    /\ eda_pc = "finish"
    /\ stdout' = Append(stdout, "EDA process finished.")
    /\ eda_pc' = "finished"
    /\ UNCHANGED <<fpdf_installed, FPDF, columns_in, eda_dirs, figures, image_sections,
                   pdf_report, eda_raised, fvars, mvars>>

NextEda ==
    \/ ImportFpdf \/ MakeReportDirs \/ ClassPDF \/ ReadTrain
    \/ PlotNumericalDistributions \/ PlotCategoricalDistributions
    \/ PlotNumericalVsTarget \/ PlotCategoricalVsTarget \/ PlotCorrelationMatrix
    \/ Report \/ Finish

SpecEda == InitEda /\ [][NextEda]_vars

----------------------------------------------------------------------------
(* Properties of create_features, under SpecFeatures *)

Called == fpc # "call"
Complete(t) == RequiredColumns \subseteq Range(t.cols)
Returned == Called /\ ~IsError(df_featured)
RowIndex == 1..Len(df.rows)

\* the values of column c that occur in t
Observed(t, c) ==
    IF HasColumn(t, c) THEN {t.rows[i][c] : i \in 1..Len(t.rows)} ELSE {}

\* a comes before b in the lexical order
Before(a, b) ==
    \E i, j \in 1..Len(LexOrder) : LexOrder[i] = a /\ LexOrder[j] = b /\ i < j

\* the lexically first observed category of column c
Baseline(t, c) == CHOOSE v \in Observed(t, c) : \A w \in Observed(t, c) \ {v} : Before(v, w)

\* the names of the indicator columns expected for column c
IndicatorNames(t, c) == {c \o "_" \o v : v \in Observed(t, c) \ {Baseline(t, c)}}

DerivedNames == {"study_efficiency", "study_sleep_interaction", "study_hours_sq",
                 "class_attendance_sq"}

\* C1: create_features returns as many rows as it was given, and row i of the
\* result carries the id, the numeric columns and the categories of row i of
\* the input: no row is added, removed, duplicated or reordered.
C1_RowsPreserved ==
    Returned =>
       /\ Len(df_featured.rows) = Len(df.rows)
       /\ \A i \in RowIndex :
             LET in == df.rows[i]
                 out == df_featured.rows[i]
             IN  /\ out["id"] = in["id"]
                 /\ \A c \in {"study_hours", "class_attendance", "sleep_hours"} :
                       out[c] = in[c]
                 /\ out["study_hours_sq"].num = in["study_hours"].num * in["study_hours"].num
                 /\ IsNaN(out["sleep_quality"])
                       <=> in["sleep_quality"] \notin {"poor", "average", "good"}
                 /\ \A c \in Range(nominal_cols) :
                       \A v \in Observed(df, c) \ {Baseline(df, c)} :
                          (out[c \o "_" \o v] = Num(1)) <=> (in[c] = v)

C1_Witness ==
    /\ Returned /\ Len(df.rows) = 3
    /\ df.rows[1]["gender"] # df.rows[2]["gender"]
    /\ df.rows[2]["sleep_quality"] = "NaN"
    /\ Len(df_featured.rows) = 3

Code3(v, k0, k1, k2) ==
    IF v = k0 THEN Num(0) ELSE IF v = k1 THEN Num(1) ELSE IF v = k2 THEN Num(2) ELSE NaN

\* C3: each ordinal column is replaced by its code from the fixed mapping, a
\* value that is no key of the mapping gives the missing marker (never 0 or
\* another code), and such a value does not make the call fail.
C3_OrdinalCodes ==
    (Called /\ Complete(df)) =>
       /\ ~IsError(df_featured)
       /\ \A i \in RowIndex :
             LET in == df.rows[i]
                 out == df_featured.rows[i]
             IN  /\ out["sleep_quality"] = Code3(in["sleep_quality"], "poor", "average", "good")
                 /\ out["facility_rating"] = Code3(in["facility_rating"], "low", "medium", "high")
                 /\ out["exam_difficulty"] = Code3(in["exam_difficulty"], "easy", "moderate", "hard")

C3_Witness ==
    /\ Returned
    /\ \E i, j, k \in RowIndex :
          /\ df.rows[i]["sleep_quality"] = "excellent"
          /\ IsNaN(df_featured.rows[i]["sleep_quality"])
          /\ df.rows[j]["facility_rating"] = "NaN"
          /\ IsNaN(df_featured.rows[j]["facility_rating"])
          /\ df.rows[k]["exam_difficulty"] = "hard"
          /\ df_featured.rows[k]["exam_difficulty"] = Num(2)

\* C4: a nominal column with k observed categories gives exactly k-1 indicator
\* columns, none for the lexically first category, and in every row exactly
\* one of them is 1, or all are 0 when the row has the first category.
C4_OneHot ==
    Returned =>
       /\ Range(df_featured.cols) \ (Range(df.cols) \cup DerivedNames)
             = UNION {IndicatorNames(df, c) : c \in Range(nominal_cols)}
       /\ \A c \in Range(nominal_cols) :
             /\ ~HasColumn(df_featured, c)
             /\ Cardinality(IndicatorNames(df, c)) = Cardinality(Observed(df, c)) - 1
             /\ \A i \in RowIndex :
                   LET ones == {n \in IndicatorNames(df, c) : df_featured.rows[i][n] = Num(1)}
                       zeros == {n \in IndicatorNames(df, c) : df_featured.rows[i][n] = Num(0)}
                   IN  /\ ones \cup zeros = IndicatorNames(df, c)
                       /\ Cardinality(ones)
                             = IF df.rows[i][c] = Baseline(df, c) THEN 0 ELSE 1

C4_Witness ==
    /\ Returned
    /\ Cardinality(Observed(df, "gender")) = 3
    /\ Cardinality(Observed(df, "course")) = 2
    /\ HasColumn(df_featured, "gender_male") /\ HasColumn(df_featured, "gender_other")
    /\ ~HasColumn(df_featured, "gender_female")
    /\ \E i \in RowIndex : df.rows[i]["gender"] = "female"

\* C5: when a column create_features reads is absent from the input, the call
\* raises an error naming an absent column and returns no table.
C5_MissingColumnFails ==
    (Called /\ ~Complete(df)) =>
       /\ IsError(df_featured)
       /\ df_featured.key \in RequiredColumns \ Range(df.cols)

C5_Witness ==
    /\ Called /\ ~HasColumn(df, "sleep_hours") /\ IsError(df_featured)

\* C8: study_efficiency is class_attendance / (study_hours + 1e-6), and where
\* study_hours is zero it is the finite value class_attendance * 10^6.
C8_StudyEfficiency ==
    Returned =>
       \A i \in RowIndex :
          LET h == df.rows[i]["study_hours"]
              a == df.rows[i]["class_attendance"]
              e == df_featured.rows[i]["study_efficiency"]
          IN  /\ e.num = a.num * 1000000
              /\ e.den = h.num * 1000000 + 1
              /\ h = Num(0) => (IsFinite(e) /\ e = Num(a.num * 1000000))

C8_Witness ==
    /\ Returned
    /\ \E i \in RowIndex :
          /\ df.rows[i]["study_hours"] = Num(0)
          /\ df.rows[i]["class_attendance"] = Num(10)
          /\ df_featured.rows[i]["study_efficiency"] = Num(10000000)

ChunksSeeAllCategories ==
    \A c \in Range(nominal_cols) :
       /\ Observed(ILoc(df, 1, chunk_at), c) = Observed(df, c)
       /\ Observed(ILoc(df, chunk_at + 1, Len(df.rows)), c) = Observed(df, c)

----------------------------------------------------------------------------
(* Properties of main, under Spec *)

\* field `name` of line i of a csv file
Field(f, i, name) == f.lines[i][CHOOSE j \in 1..Len(f.header) : f.header[j] = name]

Passthrough == {"id", "study_hours", "class_attendance", "sleep_hours"}

\* C2: the train output holds the N train rows in their order, each with its
\* own label as exam_score; the test output holds the M test rows in their
\* order and has no exam_score column.
C2_SplitKeepsPartition ==
    pc = "done" =>
       /\ Len(train_csv.lines) = Len(train_input.lines)
       /\ Len(test_csv.lines) = Len(test_input.lines)
       /\ \A i \in 1..Len(train_input.lines) :
             /\ Field(train_csv, i, "exam_score") = Field(train_input, i, "exam_score")
             /\ \A c \in Passthrough : Field(train_csv, i, c) = Field(train_input, i, c)
       /\ \A i \in 1..Len(test_input.lines) :
             \A c \in Passthrough : Field(test_csv, i, c) = Field(test_input, i, c)
       /\ "exam_score" \notin Range(test_csv.header)

C2_Witness ==
    /\ pc = "done"
    /\ Len(train_input.lines) = 2 /\ Len(test_input.lines) = 1
    /\ Field(train_csv, 1, "exam_score") = Num(85)
    /\ Field(train_csv, 2, "exam_score") = Num(70)

\* C7: the two outputs have the same feature columns in the same order; the
\* train output has exam_score as one more, last, column.
C7_SameColumns ==
    pc = "done" => train_csv.header = Append(test_csv.header, "exam_score")

C7_Witness ==
    /\ pc = "done"
    /\ Observed(train_df, "gender") = {"female"}
    /\ Observed(test_df, "gender") = {"other"}
    /\ "gender_other" \in Range(train_csv.header)
    /\ "gender_other" \in Range(test_csv.header)

\* C9: when the write of an output file starts, the directory of its path
\* exists, whatever the two output paths are.
C9_DirectoryExistsAtWrite ==
    /\ pc = "write_train" => train_output_path \in dirs
    /\ pc = "write_test" => test_output_path \in dirs

----------------------------------------------------------------------------
(* Property of the EDA script, under SpecEda *)

\* C10: without fpdf2 the script raises nothing and, once it has ended, has
\* saved the plots of all five sections and printed that the PDF is skipped.
C10_RunsWithoutFpdf ==
    ~fpdf_installed =>
       /\ eda_raised = "none" /\ eda_pc # "crashed"
       /\ eda_pc = "finished" =>
             /\ Len(image_sections) = 5
             /\ SkipMessage \in Range(stdout)
             /\ ~pdf_report

====
